---- MODULE Spec2Model ----
(***************************************************************************)
(* Model of src/app.py: the fluency-annotation pass analyze_fluency and    *)
(* the rendering of its result by the page script.                         *)
(*                                                                         *)
(* Texts are sequences of one-character strings, so that lower() and       *)
(* strip() are computed and not assumed.  Timestamps are exact multiples   *)
(* of 0.01 s (integers), so 0.7 s is 70 and subtraction is exact.          *)
(* Quotients (speech_rate, avg_pause) are kept as fractions [num, den].    *)
(* An optional value (None or v) is <<>> or <<v>>.                         *)
(***************************************************************************)
EXTENDS Integers, Sequences, FiniteSets

VARIABLES pc, result, words, w_i, repetitions, filler_count, pauses,
          prev_word, prev_end, transcript_log, metrics, error, page

vars == <<pc, result, words, w_i, repetitions, filler_count, pauses,
          prev_word, prev_end, transcript_log, metrics, error, page>>

(* ------------------------------ bounds --------------------------------- *)

MaxSegs == 2
MaxWords == 3

(* --------------------------- input universe ---------------------------- *)

\* word records of the transcription: "word", "start", "end" (0.01 s).
\* After `um 0.00-0.30`: a gap of 0.70 (start 1.00), of 0.71 (start 1.01)
\* and of 1.71 (start 2.01); after an end of 1.30: a gap of 0.71 (start
\* 2.01); any record after itself: a negative gap.
WordRecords ==
  { [word |-> <<"u", "m">>,           start |-> 0,   end |-> 30],
    [word |-> <<" ", "U", "m", " ">>, start |-> 100, end |-> 130],
    [word |-> <<" ", "U", "m", " ">>, start |-> 101, end |-> 130],
    [word |-> <<"T", "h", "e", " ">>, start |-> 201, end |-> 230],
    [word |-> <<"\t", " ">>,          start |-> 100, end |-> 130] }

\* "end" of a segment; the segments of a result are in time order
SegEnds == { 0, 250 }

WordLists(n) == [1..n -> WordRecords]

RECURSIVE SumTo(_, _)
SumTo(f, j) == IF j = 0 THEN 0 ELSE f[j] + SumTo(f, j - 1)

\* the segment list that cuts ws into segments of the given sizes; segment
\* j has a "words" key iff keys[j]
MakeSegments(ws, sizes, ends, keys) ==
  [j \in DOMAIN sizes |->
     IF keys[j]
     THEN [end |-> ends[j],
           words |-> SubSeq(ws, SumTo(sizes, j - 1) + 1, SumTo(sizes, j))]
     ELSE [end |-> ends[j]]]

(* ------------------------------ constants ------------------------------ *)

FILLERS ==
  { <<"u", "m">>, <<"u", "h">>, <<"e", "r", "m">>, <<"h", "m", "m">>,
    <<"y", "o", "u", " ", "k", "n", "o", "w">>, <<"l", "i", "k", "e">> }

PauseThreshold == 70

Whitespace == { " ", "\t", "\n" }

(* --------------------------- pure functions ---------------------------- *)

LowerChar(c) ==
  CASE c = "U" -> "u"
    [] c = "M" -> "m"
    [] c = "T" -> "t"
    [] c = "H" -> "h"
    [] c = "E" -> "e"
    [] OTHER -> c

Lower(s) == [k \in 1..Len(s) |-> LowerChar(s[k])]

RECURSIVE LStrip(_)
LStrip(s) ==
  IF s # <<>> /\ Head(s) \in Whitespace THEN LStrip(Tail(s)) ELSE s

RECURSIVE RStrip(_)
RStrip(s) ==
  IF s # <<>> /\ s[Len(s)] \in Whitespace
  THEN RStrip(SubSeq(s, 1, Len(s) - 1))
  ELSE s

Strip(s) == RStrip(LStrip(s))

\* variant: lower() without strip()
Normalize_NoStrip(text) == Lower(text)

Normalize(text) == Strip(Lower(text))

HasWords(seg) == "words" \in DOMAIN seg

RECURSIVE CollectWords(_)
CollectWords(segs) ==
  IF segs = <<>> THEN <<>>
  ELSE (IF HasWords(Head(segs)) THEN Head(segs).words ELSE <<>>)
       \o CollectWords(Tail(segs))

RECURSIVE Sum(_)
Sum(s) == IF s = <<>> THEN 0 ELSE Head(s) + Sum(Tail(s))

\* a / b of Python: a fraction, or the failure ZeroDivisionError (den = 0)
ZeroDivision == [num |-> 0, den |-> 0]

Div(a, b) == IF b = 0 THEN ZeroDivision ELSE [num |-> a, den |-> b]

Zero == [num |-> 0, den |-> 1]

Positive(f) == f.num * f.den > 0

IsFiller(word) == word \in FILLERS

\* prev_word and word == prev_word : None and "" are both falsy
IsRepetition(pw, word) == pw # <<>> /\ pw[1] # <<>> /\ word = pw[1]

\* variant: >= in place of >
IsPause_AtLeast(pe, start) == pe # <<>> /\ start - pe[1] >= PauseThreshold

IsPause(pe, start) == pe # <<>> /\ start - pe[1] > PauseThreshold

FillerEvent(word) == [kind |-> "Filler", word |-> word, pause |-> 0]

RepetitionEvent(word) == [kind |-> "Repetition", word |-> word, pause |-> 0]

PauseEvent(p) == [kind |-> "Pause", word |-> <<>>, pause |-> p]

PlainWord(word) == [kind |-> "Word", word |-> word, pause |-> 0]

\* variant: a filler is annotated and the word itself left out
WordEvents_FillerSkipsWord(word, start, pw, pe) ==
  (IF IsFiller(word) THEN << FillerEvent(word) >> ELSE <<>>)
  \o (IF IsRepetition(pw, word) THEN << RepetitionEvent(word) >> ELSE <<>>)
  \o (IF IsPause(pe, start) THEN << PauseEvent(start - pe[1]) >> ELSE <<>>)
  \o (IF IsFiller(word) THEN <<>> ELSE << PlainWord(word) >>)

\* variant: the pause check placed first in the loop body
WordEvents_PauseFirst(word, start, pw, pe) ==
  (IF IsPause(pe, start) THEN << PauseEvent(start - pe[1]) >> ELSE <<>>)
  \o (IF IsFiller(word) THEN << FillerEvent(word) >> ELSE <<>>)
  \o (IF IsRepetition(pw, word) THEN << RepetitionEvent(word) >> ELSE <<>>)
  \o << PlainWord(word) >>

\* variant: a repetition is counted and not logged
WordEvents_NoRepetitionEvent(word, start, pw, pe) ==
  (IF IsFiller(word) THEN << FillerEvent(word) >> ELSE <<>>)
  \o (IF IsPause(pe, start) THEN << PauseEvent(start - pe[1]) >> ELSE <<>>)
  \o << PlainWord(word) >>

\* what one iteration of the loop appends to transcript_log
WordEvents(word, start, pw, pe) ==
  (IF IsFiller(word) THEN << FillerEvent(word) >> ELSE <<>>)
  \o (IF IsRepetition(pw, word) THEN << RepetitionEvent(word) >> ELSE <<>>)
  \o (IF IsPause(pe, start) THEN << PauseEvent(start - pe[1]) >> ELSE <<>>)
  \o << PlainWord(word) >>

TotalWords(ws) == Len(ws)

\* variant: segments[0] in place of segments[-1]
Duration_First(segs) == IF segs # <<>> THEN segs[1].end ELSE 0

Duration(segs) == IF segs # <<>> THEN segs[Len(segs)].end ELSE 0

\* variant: >= in place of > in the guard of the division
SpeechRate_NoGuard(total, duration) ==
  IF duration >= 0 THEN Div(total, duration) ELSE Zero

SpeechRate(total, duration) ==
  IF duration > 0 THEN Div(total, duration) ELSE Zero

AvgPause(ps) == IF ps # <<>> THEN Div(Sum(ps), Len(ps)) ELSE Zero

\* variant: >= in place of > in the test of the page
AvgPauseLabel_NonNegative(avg) ==
  IF avg.num * avg.den >= 0 THEN [label |-> "seconds", value |-> avg]
  ELSE [label |-> "No pauses", value |-> Zero]

AvgPauseLabel(avg) ==
  IF Positive(avg) THEN [label |-> "seconds", value |-> avg]
  ELSE [label |-> "No pauses", value |-> Zero]

(* ------------------------------- state --------------------------------- *)

NoMetrics ==
  [repetitions |-> 0, fillers |-> 0, avg_pause |-> Zero,
   speech_rate |-> Zero, total_words |-> 0]

NoPage ==
  [transcript |-> <<>>, repetitions |-> 0, fillers |-> 0, total_words |-> 0,
   avg_pause |-> AvgPauseLabel(Zero), speech_rate |-> Zero]

Init ==
  /\ pc = "call"
  /\ result = [segments |-> <<>>]
  /\ words = <<>>
  /\ w_i = 1
  /\ repetitions = 0
  /\ filler_count = 0
  /\ pauses = <<>>
  /\ prev_word = <<>>
  /\ prev_end = <<>>
  /\ transcript_log = <<>>
  /\ metrics = NoMetrics
  /\ error = "none"
  /\ page = NoPage

\* model.transcribe returns; the words are collected, the locals set
Transcribe ==
  /\ pc = "call"
  /\ \E n \in 0..MaxWords, k \in 0..MaxSegs :
       \E ws \in WordLists(n), sizes \in [1..k -> 0..n],
          ends \in [1..k -> SegEnds], keys \in [1..k -> BOOLEAN] :
         /\ SumTo(sizes, k) = n
         /\ \A j \in 1..k : keys[j] \/ sizes[j] = 0
         /\ \A j \in 1..(k - 1) : ends[j] <= ends[j + 1]
         /\ LET segs == MakeSegments(ws, sizes, ends, keys)
            IN /\ result' = [segments |-> segs]
               /\ words' = CollectWords(segs)
  /\ w_i' = 1
  /\ repetitions' = 0
  /\ filler_count' = 0
  /\ pauses' = <<>>
  /\ prev_word' = <<>>
  /\ prev_end' = <<>>
  /\ transcript_log' = <<>>
  /\ pc' = "loop"
  /\ UNCHANGED <<metrics, error, page>>

\* model.transcribe (or load_model) raises: nothing catches it
TranscribeFails ==
  /\ pc = "call"
  /\ pc' = "raised"
  /\ error' = "UpstreamTranscriptionFailure"
  /\ UNCHANGED <<result, words, w_i, repetitions, filler_count, pauses,
                 prev_word, prev_end, transcript_log, metrics, page>>

\* one iteration of  for w in words
LoopStep ==
  /\ pc = "loop"
  /\ w_i <= Len(words)
  /\ LET w == words[w_i]
         word == Normalize(w.word)
     IN /\ filler_count' = filler_count + (IF IsFiller(word) THEN 1 ELSE 0)
        /\ repetitions' =
             repetitions + (IF IsRepetition(prev_word, word) THEN 1 ELSE 0)
        /\ pauses' = IF IsPause(prev_end, w.start)
                     THEN Append(pauses, w.start - prev_end[1])
                     ELSE pauses
        /\ transcript_log' =
             transcript_log \o WordEvents(word, w.start, prev_word, prev_end)
        /\ prev_word' = << word >>
        /\ prev_end' = << w.end >>
  /\ w_i' = w_i + 1
  /\ UNCHANGED <<pc, result, words, metrics, error, page>>

\* the summary metrics and the return
Summarize ==
  /\ pc = "loop"
  /\ w_i > Len(words)
  /\ LET total_words == TotalWords(words)
         duration == Duration(result.segments)
         speech_rate == SpeechRate(total_words, duration)
         avg_pause == AvgPause(pauses)
     IN IF speech_rate = ZeroDivision \/ avg_pause = ZeroDivision
        THEN /\ pc' = "raised"
             /\ error' = "ZeroDivisionError"
             /\ UNCHANGED metrics
        ELSE /\ pc' = "returned"
             /\ metrics' = [repetitions |-> repetitions,
                            fillers |-> filler_count,
                            avg_pause |-> avg_pause,
                            speech_rate |-> speech_rate,
                            total_words |-> total_words]
             /\ UNCHANGED error
  /\ UNCHANGED <<result, words, w_i, repetitions, filler_count, pauses,
                 prev_word, prev_end, transcript_log, page>>

\* the page script shows the returned log and metrics
Render ==
  /\ pc = "returned"
  /\ page' = [transcript |-> transcript_log,
              repetitions |-> metrics.repetitions,
              fillers |-> metrics.fillers,
              total_words |-> metrics.total_words,
              avg_pause |-> AvgPauseLabel(metrics.avg_pause),
              speech_rate |-> metrics.speech_rate]
  /\ pc' = "rendered"
  /\ UNCHANGED <<result, words, w_i, repetitions, filler_count, pauses,
                 prev_word, prev_end, transcript_log, metrics, error>>

Next == Transcribe \/ TranscribeFails \/ LoopStep \/ Summarize \/ Render

Spec == Init /\ [][Next]_vars

(* ----------------------- vocabulary of the claims ---------------------- *)

\* the word records of the input, segment by segment, last segment last
RECURSIVE InputRecordsOf(_)
InputRecordsOf(segs) ==
  IF segs = <<>> THEN <<>>
  ELSE LET last == segs[Len(segs)]
       IN InputRecordsOf(SubSeq(segs, 1, Len(segs) - 1))
          \o (IF "words" \in DOMAIN last THEN last.words ELSE <<>>)

InputRecords == InputRecordsOf(result.segments)

\* analyze_fluency has returned its log and metrics (not yet rendered)
Returned == pc = "returned"

Count(log, kind) == Cardinality({ p \in DOMAIN log : log[p].kind = kind })

\* log cut after each PlainWord entry: group i holds the entries after
\* the PlainWord of word i - 1, up to and including the PlainWord of word
\* i; entries after the last PlainWord, if any, form a last group
RECURSIVE SplitGroups(_, _, _)
SplitGroups(log, p, cur) ==
  IF p > Len(log) THEN (IF cur = <<>> THEN <<>> ELSE << cur >>)
  ELSE IF log[p].kind = "Word"
       THEN << Append(cur, log[p]) >> \o SplitGroups(log, p + 1, <<>>)
       ELSE SplitGroups(log, p + 1, Append(cur, log[p]))

Groups(log) == SplitGroups(log, 1, <<>>)

KindsOf(g) == [p \in DOMAIN g |-> g[p].kind]

Has(g, kind) == \E p \in DOMAIN g : g[p].kind = kind

Rank(kind) ==
  CASE kind = "Filler" -> 1
    [] kind = "Repetition" -> 2
    [] kind = "Pause" -> 3
    [] kind = "Word" -> 4

FracEq(f, g) == f.num * g.den = g.num * f.den

ZeroMetrics ==
  /\ metrics.repetitions = 0
  /\ metrics.fillers = 0
  /\ metrics.total_words = 0
  /\ metrics.avg_pause.num = 0 /\ metrics.avg_pause.den # 0
  /\ metrics.speech_rate.num = 0 /\ metrics.speech_rate.den # 0

Gap(i) == InputRecords[i].start - InputRecords[i - 1].end

(* -------------------------------- claims ------------------------------- *)

\* C1: one PlainWord entry per input word record: while the loop runs the
\* log holds one PlainWord per word already processed, and on return the
\* number of PlainWord entries equals the number of word records of the
\* input and equals the reported total_words.
C1_OnePlainWordPerRecord ==
  /\ pc = "loop" => Count(transcript_log, "Word") = w_i - 1
  /\ Returned =>
       /\ Count(transcript_log, "Word") = Len(InputRecords)
       /\ metrics.total_words = Count(transcript_log, "Word")

C1_Witness ==
  /\ pc = "returned"
  /\ Len(InputRecords) = 3
  /\ Len(result.segments) = 2
  /\ \E j \in 1..2 : "words" \notin DOMAIN result.segments[j]
  /\ metrics.fillers >= 1
  /\ Len(transcript_log) > 3

\* C2 (as claimed): word i >= 2 has exactly one RepetitionDetected event iff
\* its normalized text equals that of word i - 1, the first word has none,
\* and repetitions counts these words.
C2_RepetitionIffEqualToPrevious ==
  Returned =>
    /\ \A i \in 1..Len(InputRecords) :
         Count(Groups(transcript_log)[i], "Repetition") =
           (IF i >= 2 /\ Normalize(InputRecords[i].word)
                          = Normalize(InputRecords[i - 1].word)
            THEN 1 ELSE 0)
    /\ metrics.repetitions =
         Cardinality({ i \in 2..Len(InputRecords) :
                         Normalize(InputRecords[i].word)
                           = Normalize(InputRecords[i - 1].word) })

\* C3 (as claimed): the call never ends in a propagated failure, and with
\* no segments it returns an empty event list and zero-valued metrics.
C3_FailureTreatedAsEmpty ==
  /\ pc # "raised"
  /\ (Returned /\ result.segments = <<>>) =>
       (transcript_log = <<>> /\ ZeroMetrics)

\* C4: the returned log is the concatenation, in input order, of one
\* group per input word; a group ends with the PlainWord of its word (carrying
\* the normalized text), holds nothing else but the events of that word,
\* in the order filler, repetition, pause, each at most once.
C4_EventsContiguousInOrder ==
  Returned =>
    LET log == transcript_log
        gs == Groups(log)
    IN /\ Len(gs) = Len(InputRecords)
       /\ log # <<>> => log[Len(log)].kind = "Word"
       /\ \A p \in 1..(Len(log) - 1) :
            log[p].kind # "Word" => Rank(log[p].kind) < Rank(log[p + 1].kind)
       /\ \A i \in 1..Len(InputRecords) :
            LET g == gs[i]
                text == Normalize(InputRecords[i].word)
            IN /\ g[Len(g)] = PlainWord(text)
               /\ \A q \in 1..(Len(g) - 1) :
                    \/ g[q] = FillerEvent(text)
                    \/ g[q] = RepetitionEvent(text)
                    \/ i >= 2 /\ g[q] = PauseEvent(Gap(i))

C4_Witness ==
  /\ pc = "returned"
  /\ Len(InputRecords) = 3
  /\ \E i \in 2..3 :
       KindsOf(Groups(transcript_log)[i])
         = << "Filler", "Repetition", "Pause", "Word" >>

\* C5: the length of the log is the number of input words plus the
\* numbers of filler, repetition and pause events, which are the reported
\* fillers, the reported repetitions and the length of the pause list.
C5_LogLength ==
  Returned =>
    /\ Len(transcript_log) =
         Len(InputRecords) + Count(transcript_log, "Filler")
           + Count(transcript_log, "Repetition")
           + Count(transcript_log, "Pause")
    /\ Count(transcript_log, "Filler") = metrics.fillers
    /\ Count(transcript_log, "Repetition") = metrics.repetitions
    /\ Count(transcript_log, "Pause") = Len(pauses)

C5_Witness ==
  /\ pc = "returned"
  /\ Len(InputRecords) = 3
  /\ metrics.fillers >= 1
  /\ metrics.repetitions >= 1
  /\ Len(pauses) >= 1
  /\ Len(transcript_log) >= 6

\* C6: word i has a PauseDetected event iff i >= 2 and start_i - end_(i-1)
\* exceeds 0.7 s strictly; the event and the pause list record that gap.
C6_PauseIffGapExceeds ==
  Returned =>
    /\ \A i \in 1..Len(InputRecords) :
         LET g == Groups(transcript_log)[i]
         IN IF i >= 2 /\ Gap(i) > 70
            THEN /\ Count(g, "Pause") = 1
                 /\ \E q \in DOMAIN g : g[q] = PauseEvent(Gap(i))
            ELSE ~ Has(g, "Pause")
    /\ Len(pauses) = Cardinality({ i \in 2..Len(InputRecords) : Gap(i) > 70 })
    /\ \A j \in DOMAIN pauses :
         \E i \in 2..Len(InputRecords) : pauses[j] = Gap(i) /\ Gap(i) > 70

C6_Witness ==
  /\ pc = "returned"
  /\ Len(InputRecords) = 3
  /\ Gap(2) = 70
  /\ Gap(3) = 71
  /\ pauses = << 71 >>

\* C7: word i has a FillerDetected event (exactly one) iff its normalized
\* text is in the fixed filler set, whatever its timing and predecessor;
\* "um" and " Um " are fillers, "The " and whitespace are not; fillers
\* counts these words.
C7_FillerIffNormalizedInSet ==
  Returned =>
    /\ \A i \in 1..Len(InputRecords) :
         LET raw == InputRecords[i].word
             g == Groups(transcript_log)[i]
         IN /\ Count(g, "Filler") =
                 (IF Normalize(raw) \in FILLERS THEN 1 ELSE 0)
            /\ raw \in { <<"u", "m">>, <<" ", "U", "m", " ">> }
                 => g[1] = FillerEvent(<<"u", "m">>)
            /\ raw \in { <<"T", "h", "e", " ">>, <<"\t", " ">> }
                 => ~ Has(g, "Filler")
    /\ metrics.fillers =
         Cardinality({ i \in 1..Len(InputRecords) :
                         InputRecords[i].word
                           \in { <<"u", "m">>, <<" ", "U", "m", " ">> } })

C7_Witness ==
  /\ pc = "returned"
  /\ Len(InputRecords) = 3
  /\ InputRecords[1].word = <<"T", "h", "e", " ">>
  /\ InputRecords[2].word = <<" ", "U", "m", " ">>
  /\ InputRecords[3].word = <<"u", "m">>
  /\ metrics.fillers = 2

\* C8: when transcription returned and the input holds no word (no
\* segment, or no segment with a "words" key, or only empty word lists),
\* nothing is raised and the call returns an empty log with all five
\* metrics zero.
C8_NoWordsAllZero ==
  (error # "UpstreamTranscriptionFailure" /\ pc # "call"
     /\ \A j \in DOMAIN result.segments :
          "words" \in DOMAIN result.segments[j]
            => result.segments[j].words = <<>>) =>
    /\ pc # "raised"
    /\ error = "none"
    /\ words = <<>>
    /\ Returned => (transcript_log = <<>> /\ ZeroMetrics)

C8_Witness ==
  /\ pc = "returned"
  /\ Len(result.segments) = 2
  /\ \A j \in 1..2 : "words" \notin DOMAIN result.segments[j]
  /\ result.segments[2].end > 0
  /\ ZeroMetrics

\* C9: no division by zero is raised; on return speech_rate is the number
\* of input words over the end of the last segment when that end is
\* positive, and 0 otherwise (also with no segment); it is never negative.
C9_SpeechRate ==
  /\ error # "ZeroDivisionError"
  /\ Returned =>
       LET segs == result.segments
           d == IF segs = <<>> THEN 0 ELSE segs[Len(segs)].end
           r == metrics.speech_rate
       IN /\ r.den # 0
          /\ r.num * r.den >= 0
          /\ metrics.total_words = Len(InputRecords)
          /\ IF d > 0
             THEN FracEq(r, [num |-> Len(InputRecords), den |-> d])
             ELSE r.num = 0

C9_Witness ==
  /\ pc = "returned"
  /\ Len(result.segments) = 2
  /\ result.segments[1].end = 0
  /\ result.segments[2].end = 250
  /\ Len(InputRecords) = 3
  /\ metrics.speech_rate = [num |-> 3, den |-> 250]

\* C10: avg_pause is the mean of the recorded pauses and 0 with none; it
\* is 0 iff the log holds no pause event and exceeds 0.7 s otherwise; the
\* page shows "No pauses" iff the log holds no pause event.
C10_AvgPause ==
  pc \in { "returned", "rendered" } =>
    LET n == Count(transcript_log, "Pause")
        a == metrics.avg_pause
    IN /\ a.den > 0
       /\ n = Len(pauses)
       /\ IF n = 0 THEN a.num = 0
          ELSE /\ FracEq(a, [num |-> Sum(pauses), den |-> n])
               /\ a.num > 70 * a.den
       /\ (a.num = 0) <=> (n = 0)
       /\ pc = "rendered" =>
            /\ (page.avg_pause.label = "No pauses") <=> (n = 0)
            /\ n > 0 => page.avg_pause = [label |-> "seconds", value |-> a]

C10_Witness ==
  /\ pc = "rendered"
  /\ Len(pauses) = 2
  /\ metrics.avg_pause = [num |-> 142, den |-> 2]
  /\ page.avg_pause.label = "seconds"

====
